---- MODULE Spec2Model ----
(***************************************************************************)
(* Shard metadata and the GlobalDeviceArray aggregate of                   *)
(* jax/experimental/global_device_array.py as a state machine.             *)
(*                                                                         *)
(* A device is its position (1-based) in global_mesh.devices.flat; the     *)
(* mesh has the two named axes "x" (major) and "y" (minor).  A slice is a  *)
(* record [start, stop]; an Index is a sequence of slices, one per array   *)
(* axis.  A mesh_axes entry is [kind, names]: kind "none" is None, kind    *)
(* "name" is a single mesh axis name (names has length 1), kind "tuple" is *)
(* a tuple of mesh axis names (possibly empty).                            *)
(***************************************************************************)
EXTENDS Integers, Sequences, FiniteSets, TLC

VARIABLES cfg, store, ret, ncalls, gda, args, outcome, calls, shards_memo,
          view, builds, seen, probe

vars == <<cfg, store, ret, ncalls, gda, args, outcome, calls, shards_memo,
          view, builds, seen, probe>>

(***************************************************************************)
(* Bounds of the model.                                                    *)
(***************************************************************************)
\* largest dimension size of a global shape
MaxDim == 4
\* largest size of one mesh axis
MaxMeshAxis == 2
\* largest rank of a global shape given to the memoized functions
MaxRank == 2
\* largest rank of the global shape of an aggregate
MaxGdaRank == 1
\* calls of the memoized functions in one behaviour
MaxCalls == 3
\* distinct (shape, mesh, mesh_axes) keys a process switches between
MaxKeys == 2
\* accesses of the derived views of one aggregate
MaxAccess == 3
\* largest absolute value of a position given to local_data
MaxPos == 5

(***************************************************************************)
(* Helpers.                                                                *)
(***************************************************************************)
Min(a, b) == IF a < b THEN a ELSE b

RECURSIVE prod(_)
prod(s) == IF Len(s) = 0 THEN 1 ELSE Head(s) * prod(Tail(s))

EmptyMap == [z \in {} |-> 0]

Extend(f, k, v) == [z \in (DOMAIN f) \cup {k} |-> IF z = k THEN v ELSE f[z]]

\* collections.Counter: a missing key reads as 0
CounterGet(counter, h) == IF h \in DOMAIN counter THEN counter[h] ELSE 0

\* F applied to the value of v, which is computed once: a local variable
\* holding the result of a call
With(v, F(_)) == CHOOSE w \in {F(r) : r \in {v}} : TRUE

(***************************************************************************)
(* Inputs: global shapes, meshes, partition assignments.                   *)
(***************************************************************************)
AxisNames == {"x", "y"}

None == [kind |-> "none", names |-> <<>>]
Name(a) == [kind |-> "name", names |-> <<a>>]
Tuple(s) == [kind |-> "tuple", names |-> s]

\* the entries of a PartitionSpec over the mesh axes "x", "y"
Entries == {None, Name("x"), Name("y"), Tuple(<<>>), Tuple(<<"x", "y">>),
            Tuple(<<"y", "x">>)}

Used(e) == {e.names[i] : i \in DOMAIN e.names}

\* a PartitionSpec names every mesh axis at most once
ValidAxes(axes) ==
  \A i, j \in DOMAIN axes : i # j => Used(axes[i]) \cap Used(axes[j]) = {}

Shapes(maxrank) == UNION {[1..n -> 0..MaxDim] : n \in 0..maxrank}

AxesFor(rank) ==
  {a \in UNION {[1..n -> Entries] : n \in 0..rank} : ValidAxes(a)}

Meshes == [x : 1..MaxMeshAxis, y : 1..MaxMeshAxis]

NumDevices(global_mesh) == global_mesh.x * global_mesh.y

\* the coordinate of device d (flat, row-major position) on a mesh axis
Coord(global_mesh, d, name) ==
  IF name = "x" THEN (d - 1) \div global_mesh.y ELSE (d - 1) % global_mesh.y

KeyOf(c) == [shape |-> c.shape, mesh |-> c.mesh, axes |-> c.axes]

\* xb.process_index(): the observing process
process_index == 0

Processes == {0, 1}

(***************************************************************************)
(* get_shard_shape: the shard-shape calculator.                            *)
(***************************************************************************)
\* `if not mesh_axis`: None and the empty tuple are falsy
not_mesh_axis(mesh_axis) == mesh_axis.kind = "none" \/ Len(mesh_axis.names) = 0

chunk_of(global_mesh, mesh_axis, size) ==
  IF not_mesh_axis(mesh_axis) THEN size
  ELSE IF mesh_axis.kind = "tuple"
       THEN size \div prod([j \in DOMAIN mesh_axis.names |->
                              global_mesh[mesh_axis.names[j]]])
       ELSE size \div global_mesh[mesh_axis.names[1]]

\* a faulty variant: the trailing axes are not copied from the global shape
get_shard_shape_no_extend(global_shape, global_mesh, mesh_axes) ==
  [i \in 1..Min(Len(mesh_axes), Len(global_shape)) |->
     chunk_of(global_mesh, mesh_axes[i], global_shape[i])]

get_shard_shape(global_shape, global_mesh, mesh_axes) ==
  LET chunk_size == [i \in 1..Min(Len(mesh_axes), Len(global_shape)) |->
                       chunk_of(global_mesh, mesh_axes[i], global_shape[i])]
  IN IF Len(chunk_size) # Len(global_shape)
     THEN chunk_size \o SubSeq(global_shape, Len(chunk_size) + 1, Len(global_shape))
     ELSE chunk_size

(***************************************************************************)
(* _get_indices: the partition resolver (pxla), row-major over the mesh.   *)
(***************************************************************************)
RECURSIVE chunk_id(_, _, _)
\* the mixed-radix number of device d along the named mesh axes
chunk_id(global_mesh, d, names) ==
  IF Len(names) = 0 THEN 0
  ELSE chunk_id(global_mesh, d, SubSeq(names, 1, Len(names) - 1))
         * global_mesh[names[Len(names)]]
       + Coord(global_mesh, d, names[Len(names)])

axis_slice(global_mesh, d, mesh_axis, size) ==
  LET total_chunks == prod([j \in DOMAIN mesh_axis.names |->
                              global_mesh[mesh_axis.names[j]]])
      shard_size == size \div total_chunks
      i == chunk_id(global_mesh, d, mesh_axis.names)
  IN [start |-> i * shard_size, stop |-> (i + 1) * shard_size]

_get_indices(global_shape, global_mesh, mesh_axes) ==
  [d \in 1..NumDevices(global_mesh) |->
     [i \in 1..Len(global_shape) |->
        IF i > Len(mesh_axes)
        THEN [start |-> 0, stop |-> global_shape[i]]
        ELSE axis_slice(global_mesh, d, mesh_axes[i], global_shape[i])]]

(***************************************************************************)
(* The replica assignment engine.                                          *)
(***************************************************************************)
\* hash(tuple((v.start, v.stop) for v in x)); the hash of a tuple of small
\* integers is the tuple
_hashed_index(x) == [i \in DOMAIN x |-> <<x[i].start, x[i].stop>>]

RECURSIVE replica_loop_after_increment(_, _, _)
\* a faulty variant: the table stores the counter read after its increment
replica_loop_after_increment(indices, p, st) ==
  IF p > Len(indices) THEN st
  ELSE LET index == indices[p]
           h_index == _hashed_index(index)
           replica_id == CounterGet(st.index_to_replica, h_index)
       IN replica_loop_after_increment(indices, p + 1,
            [index_to_replica |->
               Extend(st.index_to_replica, h_index, replica_id + 1),
             out |-> Append(st.out, [device |-> p, index |-> index,
                                     replica_id |-> replica_id + 1]),
             unique_shards |-> IF replica_id = 0 THEN st.unique_shards + 1
                               ELSE st.unique_shards])

RECURSIVE replica_loop(_, _, _)
\* lines 87-93: the walk over safe_zip(global_mesh.devices.flat, indices)
replica_loop(indices, p, st) ==
  IF p > Len(indices) THEN st
  ELSE LET index == indices[p]
           h_index == _hashed_index(index)
           replica_id == CounterGet(st.index_to_replica, h_index)
       IN replica_loop(indices, p + 1,
            [index_to_replica |->
               Extend(st.index_to_replica, h_index, replica_id + 1),
             out |-> Append(st.out, [device |-> p, index |-> index,
                                     replica_id |-> replica_id]),
             unique_shards |-> IF replica_id = 0 THEN st.unique_shards + 1
                               ELSE st.unique_shards])

RECURSIVE quotients(_, _, _)
\* [g // s for g, s in safe_zip(global_shape, shard_shape) if g != 0 or s != 0]
\* from position i on; a division by zero is recorded as -1
quotients(global_shape, shard_shape, i) ==
  IF i > Len(global_shape) THEN <<>>
  ELSE LET g == global_shape[i]
           s == shard_shape[i]
           rest == quotients(global_shape, shard_shape, i + 1)
       IN IF g # 0 \/ s # 0
          THEN <<IF s = 0 THEN -1 ELSE g \div s>> \o rest
          ELSE rest

\* lines 96-97; err is the ZeroDivisionError of g // 0
expected_unique_shards(global_shape, shard_shape) ==
  LET q == quotients(global_shape, shard_shape, 1)
      err == \E i \in DOMAIN q : q[i] = -1
  IN [err |-> err, val |-> IF err THEN 0 ELSE prod(q)]

\* lines 80-103, given the shard shape that line 95 obtains
_get_shard_indices_replica_ids_uncached(global_shape, global_mesh, mesh_axes, shard_shape) ==
  With(replica_loop(_get_indices(global_shape, global_mesh, mesh_axes), 1,
         [index_to_replica |-> EmptyMap, out |-> <<>>, unique_shards |-> 0]),
       LAMBDA st :
  With(expected_unique_shards(global_shape, shard_shape), LAMBDA expected :
    IF expected.err
    THEN [status |-> "ZeroDivisionError", val |-> <<>>]
    ELSE IF expected.val # st.unique_shards
         THEN [status |-> "RuntimeError", val |-> <<>>]
         ELSE [status |-> "ok", val |-> st.out]))

(***************************************************************************)
(* The memoization cache (jax._src.util.cache) and the three memoized      *)
(* functions.  store holds, per function, the cached values and the        *)
(* number of runs of the underlying computation, per key.                  *)
(***************************************************************************)
EmptyStore == [shape |-> EmptyMap, idx |-> EmptyMap, rid |-> EmptyMap,
               runs_shape |-> EmptyMap, runs_idx |-> EmptyMap,
               runs_rid |-> EmptyMap]

cache_hit(entries, key) == key \in DOMAIN entries

cache_put(entries, key, v) == Extend(entries, key, v)

Bump(runs, key) == Extend(runs, key, CounterGet(runs, key) + 1)

\* a faulty variant: the function is not memoized
get_shard_shape_cached_never(st, key) ==
  [store |-> [st EXCEPT !.runs_shape = Bump(@, key)], status |-> "ok",
   val |-> get_shard_shape(key.shape, key.mesh, key.axes)]

\* lines 106-107: @cache() def get_shard_shape
get_shard_shape_cached(st, key) ==
  IF cache_hit(st.shape, key)
  THEN [store |-> st, status |-> "ok", val |-> st.shape[key]]
  ELSE LET v == get_shard_shape(key.shape, key.mesh, key.axes)
       IN [store |-> [st EXCEPT !.shape = cache_put(@, key, v),
                                !.runs_shape = Bump(@, key)],
           status |-> "ok", val |-> v]

\* lines 64-71: @cache() def get_shard_indices
get_shard_indices(st, key) ==
  IF cache_hit(st.idx, key)
  THEN [store |-> st, status |-> "ok", val |-> st.idx[key]]
  ELSE LET indices == _get_indices(key.shape, key.mesh, key.axes)
           v == [d \in 1..NumDevices(key.mesh) |->
                   [device |-> d, index |-> indices[d]]]
       IN [store |-> [st EXCEPT !.idx = cache_put(@, key, v),
                                !.runs_idx = Bump(@, key)],
           status |-> "ok", val |-> v]

\* lines 74-78: @cache() def get_shard_indices_replica_ids; a computation
\* that raises stores nothing
get_shard_indices_replica_ids(st, key) ==
  IF cache_hit(st.rid, key)
  THEN [store |-> st, status |-> "ok", val |-> st.rid[key]]
  ELSE With(get_shard_shape_cached(st, key), LAMBDA ss :
       With(_get_shard_indices_replica_ids_uncached(
              key.shape, key.mesh, key.axes, ss.val), LAMBDA r :
       With([ss.store EXCEPT !.runs_rid = Bump(@, key)], LAMBDA st1 :
         IF r.status = "ok"
         THEN [store |-> [st1 EXCEPT !.rid = cache_put(@, key, r.val)],
               status |-> "ok", val |-> r.val]
         ELSE [store |-> st1, status |-> r.status, val |-> <<>>])))

(***************************************************************************)
(* Calls of the memoized functions with the current arguments.             *)
(***************************************************************************)
NoRet == [fn |-> "none", key |-> KeyOf([shape |-> <<>>,
            mesh |-> [x |-> 1, y |-> 1], axes |-> <<>>]),
          status |-> "none", val |-> <<>>, hit |-> FALSE]

NoOutcome == [op |-> "none", status |-> "none", f |-> "none", init |-> FALSE]

\* the last value each view returned, if any
NoSeen == [local |-> <<>>, global |-> <<>>]

\* the last read of is_fully_replicated (its result in flag) or of
\* local_data (its result in val)
NoProbe == [op |-> "none", index |-> 0, status |-> "none", val |-> <<>>,
            flag |-> FALSE]

Idle == /\ gda = <<>>
        /\ args = <<>>
        /\ outcome = NoOutcome
        /\ calls = <<>>
        /\ shards_memo = <<>>
        /\ view = [op |-> "none", val |-> <<>>]
        /\ builds = [local |-> 0, global |-> 0, accesses |-> 0]
        /\ seen = NoSeen
        /\ probe = NoProbe

IdleUnchanged ==
  UNCHANGED <<gda, args, outcome, calls, shards_memo, view, builds, seen, probe>>

CallShardShape ==
  /\ ncalls < MaxCalls
  /\ \E r \in {get_shard_shape_cached(store, KeyOf(cfg))} :
        /\ store' = r.store
        /\ ret' = [fn |-> "shape", key |-> KeyOf(cfg), status |-> r.status,
                   val |-> r.val, hit |-> cache_hit(store.shape, KeyOf(cfg))]
  /\ ncalls' = ncalls + 1
  /\ UNCHANGED cfg
  /\ IdleUnchanged

CallShardIndices ==
  /\ ncalls < MaxCalls
  /\ \E r \in {get_shard_indices(store, KeyOf(cfg))} :
        /\ store' = r.store
        /\ ret' = [fn |-> "idx", key |-> KeyOf(cfg), status |-> r.status,
                   val |-> r.val, hit |-> cache_hit(store.idx, KeyOf(cfg))]
  /\ ncalls' = ncalls + 1
  /\ UNCHANGED cfg
  /\ IdleUnchanged

CallReplicaIds ==
  /\ ncalls < MaxCalls
  /\ \E r \in {get_shard_indices_replica_ids(store, KeyOf(cfg))} :
        /\ store' = r.store
        /\ ret' = [fn |-> "rid", key |-> KeyOf(cfg), status |-> r.status,
                   val |-> r.val, hit |-> cache_hit(store.rid, KeyOf(cfg))]
  /\ ncalls' = ncalls + 1
  /\ UNCHANGED cfg
  /\ IdleUnchanged

(***************************************************************************)
(* SpecFn: the memoized functions applied to every (shape, mesh,           *)
(* mesh_axes) within the bounds, in a process that owns every device.      *)
(***************************************************************************)
AllLocal(m) == [d \in 1..NumDevices(m) |-> process_index]

InitFn == /\ \E s \in Shapes(MaxRank), m \in Meshes, a \in AxesFor(MaxRank) :
               /\ Len(a) <= Len(s)
               /\ cfg = [shape |-> s, mesh |-> m, axes |-> a,
                         proc |-> AllLocal(m)]
          /\ store = EmptyStore
          /\ ret = NoRet
          /\ ncalls = 0
          /\ Idle

NextFn == CallShardShape \/ CallShardIndices \/ CallReplicaIds

SpecFn == InitFn /\ [][NextFn]_vars

(***************************************************************************)
(* SpecCache: one process calling the memoized functions with up to        *)
(* MaxKeys distinct keys.                                                  *)
(***************************************************************************)
CacheAxes == {<<>>, <<Name("x")>>}

\* the arguments the process chooses among: a mesh of one column, a shape
\* of rank at most MaxGdaRank, partitioned along "x" or not at all
CacheConfigs ==
  {[shape |-> t[1], mesh |-> t[2], axes |-> t[3], proc |-> AllLocal(t[2])] :
     t \in {u \in Shapes(MaxGdaRank) \X Meshes \X CacheAxes :
              Len(u[3]) <= Len(u[1]) /\ u[2].y = 1}}

Touched(st) == (DOMAIN st.runs_shape) \cup (DOMAIN st.runs_idx)
                 \cup (DOMAIN st.runs_rid)

\* the caller turns to other arguments
SwitchKey ==
  /\ \E c \in CacheConfigs :
       /\ c # cfg
       /\ Cardinality(Touched(store) \cup {KeyOf(c)}) <= MaxKeys
       /\ cfg' = c
  /\ UNCHANGED <<store, ret, ncalls>>
  /\ IdleUnchanged

InitCache == /\ cfg \in CacheConfigs
             /\ store = EmptyStore
             /\ ret = NoRet
             /\ ncalls = 0
             /\ Idle

NextCache == CallShardShape \/ CallShardIndices \/ CallReplicaIds \/ SwitchKey

SpecCache == InitCache /\ [][NextCache]_vars

(***************************************************************************)
(* Buffers, callbacks and placement.  A buffer is [id, device, shape,      *)
(* dtype, data]: id is the identity of the buffer object, data names the   *)
(* value it holds as [f, of]: the callback and the Index it was called     *)
(* with ("given" for a buffer handed to the constructor as it is).         *)
(***************************************************************************)
Dtypes == {"int32", "float32"}

\* global_mesh.local_devices: the devices of the observing process, in the
\* flattened order of the mesh
RECURSIVE local_devices_from(_, _)
local_devices_from(c, d) ==
  IF d > NumDevices(c.mesh) THEN <<>>
  ELSE (IF c.proc[d] = process_index THEN <<d>> ELSE <<>>)
         \o local_devices_from(c, d + 1)

mesh_local_devices(c) == local_devices_from(c, 1)

Extents(index) == [i \in DOMAIN index |-> index[i].stop - index[i].start]

Callbacks == {"slice", "whole", "mixed"}

\* what a data callback returns for an Index: "slice" is
\* global_input_data[index]; "whole" returns the global array whatever the
\* Index; "mixed" returns the slice with a dtype that depends on the Index
CallbackValue(f, c, index) ==
  [data |-> [f |-> f, of |-> index],
   shape |-> IF f = "whole" THEN c.shape ELSE Extents(index),
   dtype |-> IF f = "mixed" /\ Len(index) > 0 /\ index[1].start # 0
             THEN "float32" ELSE "int32"]

\* jax.device_put(value, device), the id-th buffer made
device_put(value, device, id) ==
  [id |-> id, device |-> device, shape |-> value.shape, dtype |-> value.dtype,
   data |-> value.data]

(***************************************************************************)
(* GlobalDeviceArray.__init__                                              *)
(***************************************************************************)
_GdaFastPathArgs(global_indices_replica_ids, local_devices) ==
  <<[global_indices_replica_ids |-> global_indices_replica_ids,
     local_devices |-> local_devices]>>

\* lines 276-279
init_local_devices(c, fast_path) ==
  IF fast_path = <<>> THEN mesh_local_devices(c) ELSE fast_path[1].local_devices

\* lines 282-287: "" when the loop passes
device_order_check(device_buffers, local_devices) ==
  IF Len(device_buffers) # Len(local_devices) THEN "AssertionError"
  ELSE IF \E i \in DOMAIN device_buffers :
            device_buffers[i].device # local_devices[i]
       THEN "ValueError"
       ELSE ""

GdaObject(c, device_buffers, fast_path, dtype) ==
  [global_shape |-> c.shape, global_mesh |-> c.mesh, mesh_axes |-> c.axes,
   device_buffers |-> device_buffers, fast_path |-> fast_path,
   local_devices |-> init_local_devices(c, fast_path),
   current_process |-> process_index, dtype |-> dtype]

Failed(st, status) == [store |-> st, status |-> status, obj |-> <<>>]

\* a faulty variant: the dtypes of the buffers are not compared
gda_init_no_dtype_check(st, c, device_buffers, fast_path, enable_checks) ==
  With(IF enable_checks
       THEN device_order_check(device_buffers, init_local_devices(c, fast_path))
       ELSE "", LAMBDA order :
  With(IF enable_checks /\ order = ""
       THEN get_shard_shape_cached(st, KeyOf(c))
       ELSE [store |-> st, status |-> "ok", val |-> <<>>], LAMBDA ss :
    IF order # "" THEN Failed(st, order)
    ELSE IF enable_checks
            /\ \E i \in DOMAIN device_buffers : device_buffers[i].shape # ss.val
    THEN Failed(ss.store, "AssertionError")
    ELSE IF Len(device_buffers) = 0 THEN Failed(ss.store, "IndexError")
    ELSE [store |-> ss.store, status |-> "ok",
          obj |-> <<GdaObject(c, device_buffers, fast_path,
                              device_buffers[1].dtype)>>]))

\* lines 264-300: order is the outcome of the loop of lines 282-287, ss the
\* shard shape of line 289
gda_init(st, c, device_buffers, fast_path, enable_checks) ==
  With(IF enable_checks
       THEN device_order_check(device_buffers, init_local_devices(c, fast_path))
       ELSE "", LAMBDA order :
  With(IF enable_checks /\ order = ""
       THEN get_shard_shape_cached(st, KeyOf(c))
       ELSE [store |-> st, status |-> "ok", val |-> <<>>], LAMBDA ss :
    IF order # "" THEN Failed(st, order)
    ELSE IF enable_checks
            /\ \E i \in DOMAIN device_buffers : device_buffers[i].shape # ss.val
    THEN Failed(ss.store, "AssertionError")
    ELSE IF Len(device_buffers) = 0 THEN Failed(ss.store, "IndexError")
    ELSE IF enable_checks
            /\ \E i \in DOMAIN device_buffers :
                 device_buffers[i].dtype # device_buffers[1].dtype
    THEN Failed(ss.store, "AssertionError")
    ELSE [store |-> ss.store, status |-> "ok",
          obj |-> <<GdaObject(c, device_buffers, fast_path,
                              device_buffers[1].dtype)>>]))

(***************************************************************************)
(* The derived views.                                                      *)
(***************************************************************************)
Shard(device, index, replica_id, data) ==
  [device |-> device, index |-> index, replica_id |-> replica_id, data |-> data]

ObjKey(obj) == [shape |-> obj.global_shape, mesh |-> obj.global_mesh,
                axes |-> obj.mesh_axes]

\* lines 344-348: the device table in use
table_in_use(st, obj) ==
  IF obj.fast_path # <<>>
  THEN [store |-> st, status |-> "ok",
        val |-> obj.fast_path[1].global_indices_replica_ids]
  ELSE get_shard_indices_replica_ids(st, ObjKey(obj))

\* a faulty variant: the i-th buffer gets the i-th row of the device table
_create_local_shards_by_position(st, obj) ==
  With(table_in_use(st, obj), LAMBDA t :
    IF t.status # "ok" THEN t
    ELSE IF \E i \in DOMAIN obj.device_buffers : i \notin DOMAIN t.val
    THEN [store |-> t.store, status |-> "KeyError", val |-> <<>>]
    ELSE [store |-> t.store, status |-> "ok",
          val |-> [i \in DOMAIN obj.device_buffers |->
                     Shard(obj.device_buffers[i].device, t.val[i].index,
                           t.val[i].replica_id, <<obj.device_buffers[i]>>)]])

\* lines 343-356
_create_local_shards(st, obj) ==
  With(table_in_use(st, obj), LAMBDA t :
    IF t.status # "ok" THEN t
    ELSE IF \E i \in DOMAIN obj.device_buffers :
              obj.device_buffers[i].device \notin DOMAIN t.val
    THEN [store |-> t.store, status |-> "KeyError", val |-> <<>>]
    ELSE [store |-> t.store, status |-> "ok",
          val |-> [i \in DOMAIN obj.device_buffers |->
                     LET db == obj.device_buffers[i]
                         device == db.device
                     IN Shard(device, t.val[device].index,
                              t.val[device].replica_id, <<db>>)]])

\* lines 358-360: pxla.maybe_cached_property; memo is the value kept in the
\* instance, if any
local_shards(st, obj, memo) ==
  IF memo # <<>>
  THEN [store |-> st, status |-> "ok", val |-> memo[1], memo |-> memo,
        built_local |-> 0, built_global |-> 0]
  ELSE With(_create_local_shards(st, obj), LAMBDA r :
         [store |-> r.store, status |-> r.status, val |-> r.val,
          memo |-> IF r.status = "ok" THEN <<r.val>> ELSE <<>>,
          built_local |-> IF r.status = "ok" THEN 1 ELSE 0,
          built_global |-> 0])

\* a faulty variant: every device is given the first buffer
device_to_buffer_first(device_buffers) ==
  [d \in {device_buffers[i].device : i \in DOMAIN device_buffers} |->
     device_buffers[1]]

\* line 374: {db.device(): db for db in self._device_buffers}; a later buffer
\* on the same device replaces an earlier one
device_to_buffer(device_buffers) ==
  LET devs == {device_buffers[i].device : i \in DOMAIN device_buffers}
  IN [d \in devs |->
        device_buffers[CHOOSE i \in DOMAIN device_buffers :
                         /\ device_buffers[i].device = d
                         /\ \A j \in DOMAIN device_buffers :
                              device_buffers[j].device = d => j <= i]]

\* line 379: device.process_index == self._current_process
IsLocal(obj, device) == cfg.proc[device] = obj.current_process

\* a faulty variant: no Shard of the global view carries a buffer
global_shards_no_data(st, obj, memo) ==
  IF NumDevices(obj.global_mesh) = Len(obj.local_devices)
  THEN local_shards(st, obj, memo)
  ELSE With(get_shard_indices_replica_ids(st, ObjKey(obj)), LAMBDA t :
         IF t.status # "ok"
         THEN [store |-> t.store, status |-> t.status, val |-> <<>>,
               memo |-> memo, built_local |-> 0, built_global |-> 0]
         ELSE [store |-> t.store, status |-> "ok",
               val |-> [p \in DOMAIN t.val |->
                          Shard(t.val[p].device, t.val[p].index,
                                t.val[p].replica_id, <<>>)],
               memo |-> memo, built_local |-> 0, built_global |-> 1])

\* lines 362-383: a plain property
global_shards(st, obj, memo) ==
  IF NumDevices(obj.global_mesh) = Len(obj.local_devices)
  THEN local_shards(st, obj, memo)
  ELSE With(get_shard_indices_replica_ids(st, ObjKey(obj)), LAMBDA t :
       With(device_to_buffer(obj.device_buffers), LAMBDA d2b :
         IF t.status # "ok"
         THEN [store |-> t.store, status |-> t.status, val |-> <<>>,
               memo |-> memo, built_local |-> 0, built_global |-> 0]
         ELSE IF \E p \in DOMAIN t.val :
                   /\ IsLocal(obj, t.val[p].device)
                   /\ t.val[p].device \notin DOMAIN d2b
         THEN [store |-> t.store, status |-> "KeyError", val |-> <<>>,
               memo |-> memo, built_local |-> 0, built_global |-> 0]
         ELSE [store |-> t.store, status |-> "ok",
               val |-> [p \in DOMAIN t.val |->
                          LET device == t.val[p].device
                          IN Shard(device, t.val[p].index, t.val[p].replica_id,
                                   IF IsLocal(obj, device) THEN <<d2b[device]>>
                                   ELSE <<>>)],
               memo |-> memo, built_local |-> 0, built_global |-> 1]))

\* a faulty variant: a negative position is out of range
local_data_no_wrap(obj, index) ==
  LET n == Len(obj.device_buffers)
  IN IF index >= n \/ index < 0 THEN [status |-> "IndexError", val |-> <<>>]
     ELSE [status |-> "ok", val |-> <<obj.device_buffers[index + 1]>>]

\* lines 385-386: self._device_buffers[index], a Python list index
local_data(obj, index) ==
  LET n == Len(obj.device_buffers)
  IN IF index >= n \/ index < -n THEN [status |-> "IndexError", val |-> <<>>]
     ELSE [status |-> "ok",
           val |-> <<obj.device_buffers[IF index >= 0 THEN index + 1
                                        ELSE n + index + 1]>>]

\* a faulty variant: only the ranks are compared
is_fully_replicated_by_rank(obj) ==
  With(local_data(obj, 0), LAMBDA b :
    IF b.status # "ok" THEN [status |-> b.status, val |-> FALSE]
    ELSE [status |-> "ok",
          val |-> Len(obj.global_shape) = Len(b.val[1].shape)])

\* lines 339-341: self.shape == self.local_data(0).shape
is_fully_replicated(obj) ==
  With(local_data(obj, 0), LAMBDA b :
    IF b.status # "ok" THEN [status |-> b.status, val |-> FALSE]
    ELSE [status |-> "ok", val |-> obj.global_shape = b.val[1].shape])

Access(op, r) ==
  \E v \in {r} :
    /\ store' = v.store
    /\ shards_memo' = v.memo
    /\ view' = [op |-> op, status |-> v.status, val |-> v.val]
    /\ builds' = [local |-> builds.local + v.built_local,
                  global |-> builds.global + v.built_global,
                  accesses |-> builds.accesses + 1]
    /\ seen' = IF v.status # "ok" THEN seen
               ELSE IF op = "local_shards"
                    THEN [seen EXCEPT !.local = <<v.val>>]
                    ELSE [seen EXCEPT !.global = <<v.val>>]
    /\ UNCHANGED <<cfg, ret, ncalls, gda, args, outcome, calls, probe>>

AccessLocalShards ==
  /\ gda # <<>>
  /\ builds.accesses < MaxAccess
  /\ Access("local_shards", local_shards(store, gda[1], shards_memo))

AccessGlobalShards ==
  /\ gda # <<>>
  /\ builds.accesses < MaxAccess
  /\ Access("global_shards", global_shards(store, gda[1], shards_memo))

(***************************************************************************)
(* The ingestion strategies and the result reconstruction handler.         *)
(***************************************************************************)
NotBuilt(st, status) ==
  [store |-> st, status |-> status, calls |-> <<>>, dbs |-> <<>>, obj |-> <<>>,
   init |-> FALSE]

Built(g, calls_made, dbs) ==
  With(g, LAMBDA v :
    [store |-> v.store, status |-> v.status, calls |-> calls_made,
     dbs |-> dbs, obj |-> v.obj, init |-> TRUE])

\* a faulty variant: the callback gets the Index of the i-th row of the device
\* table for the i-th local device
from_callback_by_position(st, c, data_callback) ==
  With(get_shard_indices_replica_ids(st, KeyOf(c)), LAMBDA r :
  With(mesh_local_devices(c), LAMBDA local_devices :
    IF r.status # "ok" THEN NotBuilt(r.store, r.status)
    ELSE With([i \in DOMAIN local_devices |->
                 device_put(CallbackValue(data_callback, c, r.val[i].index),
                            local_devices[i], i)], LAMBDA dbs :
           Built(gda_init(r.store, c, dbs,
                          _GdaFastPathArgs(r.val, local_devices), TRUE),
                 [i \in DOMAIN local_devices |-> r.val[i].index], dbs))))

\* lines 428-436
from_callback(st, c, data_callback) ==
  With(get_shard_indices_replica_ids(st, KeyOf(c)), LAMBDA r :
  With(mesh_local_devices(c), LAMBDA local_devices :
    IF r.status # "ok" THEN NotBuilt(r.store, r.status)
    ELSE With([i \in DOMAIN local_devices |->
                 device_put(CallbackValue(data_callback, c,
                                          r.val[local_devices[i]].index),
                            local_devices[i], i)], LAMBDA dbs :
           Built(gda_init(r.store, c, dbs,
                          _GdaFastPathArgs(r.val, local_devices), TRUE),
                 [i \in DOMAIN local_devices |->
                    r.val[local_devices[i]].index],
                 dbs))))

\* lines 476-483; the callback is called once, with the list of local
\* Indices, and returns one value per Index
from_batched_callback(st, c, data_callback) ==
  With(get_shard_indices_replica_ids(st, KeyOf(c)), LAMBDA r :
  With(mesh_local_devices(c), LAMBDA local_devices :
    IF r.status # "ok" THEN NotBuilt(r.store, r.status)
    ELSE With([i \in DOMAIN local_devices |->
                 r.val[local_devices[i]].index], LAMBDA local_indices :
         With([i \in DOMAIN local_indices |->
                 CallbackValue(data_callback, c, local_indices[i])],
              LAMBDA local_arrays :
         With([i \in DOMAIN local_devices |->
                 device_put(local_arrays[i], local_devices[i], i)],
              LAMBDA dbs :
           Built(gda_init(r.store, c, dbs,
                          _GdaFastPathArgs(r.val, local_devices), TRUE),
                 <<local_indices>>, dbs))))))

RECURSIVE index_to_device(_, _, _, _)
\* lines 532-539: the local devices grouped by the hash of their Index, the
\* groups in the order of their first device
index_to_device(table, local_devices, i, groups) ==
  IF i > Len(local_devices) THEN groups
  ELSE LET device == local_devices[i]
           index == table[device].index
           h_index == _hashed_index(index)
           at == {g \in DOMAIN groups : groups[g].h_index = h_index}
       IN index_to_device(table, local_devices, i + 1,
            IF at = {}
            THEN Append(groups, [h_index |-> h_index, index |-> index,
                                 devices |-> <<device>>])
            ELSE [g \in DOMAIN groups |->
                    IF g \in at
                    THEN [groups[g] EXCEPT !.devices = Append(@, device)]
                    ELSE groups[g]])

RECURSIVE documented_callback(_, _, _, _)
\* the callback of the docstring (lines 506-512): for every (index, devices)
\* pair in turn, the slice put on every device of the pair
documented_callback(c, cb_inp, g, dbs) ==
  IF g > Len(cb_inp) THEN dbs
  ELSE documented_callback(c, cb_inp, g + 1,
         dbs \o [j \in DOMAIN cb_inp[g][2] |->
                   device_put(CallbackValue("slice", c, cb_inp[g][1]),
                              cb_inp[g][2][j], Len(dbs) + j)])

\* lines 528-546
from_batched_callback_with_devices(st, c, data_callback) ==
  With(get_shard_indices_replica_ids(st, KeyOf(c)), LAMBDA r :
  With(mesh_local_devices(c), LAMBDA local_devices :
    IF r.status # "ok" THEN NotBuilt(r.store, r.status)
    ELSE With(index_to_device(r.val, local_devices, 1, <<>>), LAMBDA groups :
         With([g \in DOMAIN groups |-> <<groups[g].index, groups[g].devices>>],
              LAMBDA cb_inp :
         With(documented_callback(c, cb_inp, 1, <<>>), LAMBDA dbs :
           Built(gda_init(r.store, c, dbs,
                          _GdaFastPathArgs(r.val, local_devices), TRUE),
                 <<cb_inp>>, dbs))))))

\* the buffers an execution produces: one per local device, in order
runtime_buffers(c) ==
  LET local_devices == mesh_local_devices(c)
  IN [i \in DOMAIN local_devices |->
        [id |-> i, device |-> local_devices[i],
         shape |-> get_shard_shape(c.shape, c.mesh, c.axes),
         dtype |-> "float32", data |-> [f |-> "runtime", of |-> <<>>]]]

\* lines 560-567, the handler applied to bufs; jax_enable_checks is the
\* configuration flag
_gda_array_result_handler(st, c, bufs, jax_enable_checks) ==
  With(get_shard_indices_replica_ids(st, KeyOf(c)), LAMBDA r :
    IF r.status # "ok" THEN NotBuilt(r.store, r.status)
    ELSE Built(gda_init(r.store, c, bufs,
                        _GdaFastPathArgs(r.val, mesh_local_devices(c)),
                        jax_enable_checks),
               <<>>, bufs))

(***************************************************************************)
(* Construction of the aggregate of a behaviour.                           *)
(***************************************************************************)
WrongShape(ss) == Append(ss, 1)

Swap(s, j) == [i \in DOMAIN s |-> IF i = j THEN s[j + 1]
                                  ELSE IF i = j + 1 THEN s[j] ELSE s[i]]

\* the device orders of the buffers a caller hands to the constructor
DeviceOrders(c) ==
  LET ld == mesh_local_devices(c)
  IN {ld, Append(ld, NumDevices(c.mesh))}
       \cup {SubSeq(ld, 1, Len(ld) - 1) : k \in {1} \cap DOMAIN ld}
       \cup {Swap(ld, j) : j \in 1..(Len(ld) - 1)}

\* the buffer lists a caller hands to the constructor: per device order, at
\* most one buffer of another shape and at most one of another dtype
DirectInputs(c) ==
  LET ss == get_shard_shape(c.shape, c.mesh, c.axes)
  IN {[i \in DOMAIN devs |->
         [id |-> i, device |-> devs[i],
          shape |-> IF i = sp THEN WrongShape(ss) ELSE ss,
          dtype |-> IF i = dp THEN "int32" ELSE "float32",
          data |-> [f |-> "given", of |-> <<>>]]] :
        <<devs, sp, dp>> \in
          {t \in DeviceOrders(c) \X (0..NumDevices(c.mesh) + 1)
                   \X (0..NumDevices(c.mesh) + 1) :
             t[2] <= Len(t[1]) /\ t[3] <= Len(t[1])}}

Constructed(op, f, r) ==
  \E v \in {r} :
    /\ store' = v.store
    /\ gda' = v.obj
    /\ args' = v.dbs
    /\ calls' = v.calls
    /\ outcome' = [op |-> op, status |-> v.status, f |-> f, init |-> v.init]
    /\ UNCHANGED <<cfg, ret, ncalls, shards_memo, view, builds, seen, probe>>

Construct ==
  /\ outcome.op = "none"
  /\ \E device_buffers \in DirectInputs(cfg) :
       Constructed("construct", "none",
         Built(gda_init(store, cfg, device_buffers, <<>>, TRUE), <<>>,
               device_buffers))

FromCallback ==
  /\ outcome.op = "none"
  /\ \E f \in Callbacks :
       Constructed("from_callback", f, from_callback(store, cfg, f))

FromBatchedCallback ==
  /\ outcome.op = "none"
  /\ \E f \in Callbacks :
       Constructed("from_batched_callback", f,
                   from_batched_callback(store, cfg, f))

FromBatchedCallbackWithDevices ==
  /\ outcome.op = "none"
  /\ Constructed("from_batched_callback_with_devices", "slice",
                 from_batched_callback_with_devices(store, cfg, "slice"))

ResultHandler ==
  /\ outcome.op = "none"
  /\ \E jax_enable_checks \in BOOLEAN :
       Constructed("result_handler",
                   IF jax_enable_checks THEN "checks" ELSE "no_checks",
                   _gda_array_result_handler(store, cfg, runtime_buffers(cfg),
                                             jax_enable_checks))

(***************************************************************************)
(* Spec: one aggregate, built in one of the five ways, and its views.      *)
(***************************************************************************)
Init == /\ \E s \in Shapes(MaxGdaRank), m \in Meshes, a \in AxesFor(MaxGdaRank) :
             /\ Len(a) <= Len(s)
             /\ \E pr \in [1..NumDevices(m) -> Processes] :
                  cfg = [shape |-> s, mesh |-> m, axes |-> a, proc |-> pr]
        /\ store = EmptyStore
        /\ ret = NoRet
        /\ ncalls = 0
        /\ Idle

Next == \/ Construct
        \/ FromCallback
        \/ FromBatchedCallback
        \/ FromBatchedCallbackWithDevices
        \/ ResultHandler
        \/ AccessLocalShards
        \/ AccessGlobalShards

Spec == Init /\ [][Next]_vars

(***************************************************************************)
(* SpecRead: one aggregate, built in one of the five ways, and reads of    *)
(* is_fully_replicated and local_data on it.                               *)
(***************************************************************************)
Positions == (-MaxPos)..MaxPos

ReadUnchanged ==
  UNCHANGED <<cfg, store, ret, ncalls, gda, args, outcome, calls, shards_memo,
              view, builds, seen>>

ReadIsFullyReplicated ==
  /\ gda # <<>>
  /\ \E r \in {is_fully_replicated(gda[1])} :
       probe' = [op |-> "is_fully_replicated", index |-> 0,
                 status |-> r.status, val |-> <<>>, flag |-> r.val]
  /\ ReadUnchanged

ReadLocalData ==
  /\ gda # <<>>
  /\ \E index \in Positions :
       \E r \in {local_data(gda[1], index)} :
         probe' = [op |-> "local_data", index |-> index,
                   status |-> r.status, val |-> r.val, flag |-> FALSE]
  /\ ReadUnchanged

NextRead == \/ Construct
            \/ FromCallback
            \/ FromBatchedCallback
            \/ FromBatchedCallbackWithDevices
            \/ ResultHandler
            \/ ReadIsFullyReplicated
            \/ ReadLocalData

SpecRead == Init /\ [][NextRead]_vars

(***************************************************************************)
(* Claims about the memoized functions.                                    *)
(***************************************************************************)
\* the devices before position p of a table that hold the Index of position p
EarlierHolders(table, p) ==
  {q \in 1..(p - 1) : table[q].index = table[p].index}

DistinctIndices(table) == {table[p].index : p \in DOMAIN table}

\* C1: in every table the replica engine returns, the device at flat
\* position p has the replica id that counts the earlier devices holding the
\* same Index: per Index the ids are 0, 1, ..., k-1 in flattened grid order,
\* and devices holding different Indices do not share a counter.
C1_ReplicaIdsContiguous ==
  (ret.fn = "rid" /\ ret.status = "ok") =>
    /\ Len(ret.val) = NumDevices(ret.key.mesh)
    /\ \A p \in DOMAIN ret.val :
         /\ ret.val[p].device = p
         /\ ret.val[p].replica_id = Cardinality(EarlierHolders(ret.val, p))

\* a returned table with two distinct Indices, each held by two devices
C1_Witness ==
  /\ ret.fn = "rid" /\ ret.status = "ok"
  /\ Cardinality(DistinctIndices(ret.val)) = 2
  /\ \A p \in DOMAIN ret.val :
       \E q \in DOMAIN ret.val : q # p /\ ret.val[q].index = ret.val[p].index
  /\ \E p \in DOMAIN ret.val : ret.val[p].replica_id = 1

RECURSIVE QuotientProduct(_, _, _)
\* the product over the axes from i on where global size or shard size is
\* nonzero of (global size / shard size)
QuotientProduct(global_shape, shard_shape, i) ==
  IF i > Len(global_shape) THEN 1
  ELSE (IF global_shape[i] = 0 /\ shard_shape[i] = 0 THEN 1
        ELSE global_shape[i] \div shard_shape[i])
       * QuotientProduct(global_shape, shard_shape, i + 1)

\* C2: a call of the replica engine either returns a table covering every
\* device of the grid whose number of distinct Indices is the product of
\* (global size / shard size), or fails with RuntimeError; it has no other
\* outcome.
C2_TableOrRuntimeError ==
  (ret.fn = "rid") =>
    \/ ret.status = "RuntimeError"
    \/ /\ ret.status = "ok"
       /\ Len(ret.val) = NumDevices(ret.key.mesh)
       /\ Cardinality(DistinctIndices(ret.val)) =
            QuotientProduct(ret.key.shape,
              get_shard_shape(ret.key.shape, ret.key.mesh, ret.key.axes), 1)

RECURSIVE GridDivisor(_, _)
\* the product of the sizes of the named grid axes
GridDivisor(global_mesh, names) ==
  IF names = <<>> THEN 1
  ELSE global_mesh[Head(names)] * GridDivisor(global_mesh, Tail(names))

Unassigned(mesh_axes, i) == i > Len(mesh_axes) \/ mesh_axes[i].kind = "none"

\* C3: get_shard_shape returns a tuple of the rank of the global shape; axis
\* i is the global size if the axis is unassigned or beyond the partition's
\* length, the global size integer-divided by the grid axis size if assigned
\* to one grid axis, and by the product of the named grid axis sizes if
\* assigned to a tuple; where the global size is divisible by the divisor,
\* shard size * divisor = global size.
C3_ShardShape ==
  (ret.fn = "shape") =>
    LET k == ret.key
    IN /\ Len(ret.val) = Len(k.shape)
       /\ \A i \in DOMAIN k.shape :
            IF Unassigned(k.axes, i) THEN ret.val[i] = k.shape[i]
            ELSE LET m == IF k.axes[i].kind = "name"
                          THEN k.mesh[k.axes[i].names[1]]
                          ELSE GridDivisor(k.mesh, k.axes[i].names)
                 IN /\ ret.val[i] = k.shape[i] \div m
                    /\ (k.shape[i] % m = 0 => ret.val[i] * m = k.shape[i])

\* a shard shape of rank 2 whose first axis is divided by a tuple of two
\* grid axes and whose second axis lies beyond the partition's length
C3_Witness ==
  /\ ret.fn = "shape"
  /\ Len(ret.key.shape) = 2 /\ Len(ret.key.axes) = 1
  /\ ret.key.axes[1].kind = "tuple" /\ Len(ret.key.axes[1].names) = 2
  /\ ret.key.mesh = [x |-> 2, y |-> 2]
  /\ ret.key.shape = <<4, 3>>
  /\ ret.val = <<1, 3>>

Caches(st) == <<st.shape, st.idx, st.rid>>
Runs(st) == <<st.runs_shape, st.runs_idx, st.runs_rid>>

\* C9 as stated: the underlying computation of each memoized function has
\* run at most once per key.
C9_AtMostOneRunPerKey ==
  \A f \in 1..3 : \A k \in DOMAIN Runs(store)[f] : Runs(store)[f][k] <= 1

\* a call served from the cache returns the stored value and runs nothing
HitReturnsStored ==
  /\ ret.fn = "shape" /\ ret.hit => ret.val = store.shape[ret.key]
  /\ ret.fn = "idx" /\ ret.hit => ret.val = store.idx[ret.key]
  /\ ret.fn = "rid" /\ ret.hit => ret.val = store.rid[ret.key]

\* C9 amended: per function and key, the computation has run exactly once if
\* the key has an entry (its computation returned a value); every key
\* get_shard_shape or get_shard_indices ran for has an entry; a key without
\* an entry is one whose computation raised on every call so far; a hit
\* returns the stored value; and a step never removes or changes an entry,
\* nor runs the computation of a key that has one.
C9_OnceWhenReturned ==
  /\ [](\A f \in 1..3 : \A k \in DOMAIN Caches(store)[f] :
          k \in DOMAIN Runs(store)[f] /\ Runs(store)[f][k] = 1)
  /\ [](/\ DOMAIN store.runs_shape = DOMAIN store.shape
        /\ DOMAIN store.runs_idx = DOMAIN store.idx)
  /\ [](\A k \in DOMAIN store.runs_rid :
          k \notin DOMAIN store.rid =>
            _get_shard_indices_replica_ids_uncached(k.shape, k.mesh, k.axes,
              get_shard_shape(k.shape, k.mesh, k.axes)).status # "ok")
  /\ []HitReturnsStored
  /\ [][\A f \in 1..3 : \A k \in DOMAIN Caches(store)[f] :
          /\ k \in DOMAIN Caches(store')[f]
          /\ Caches(store')[f][k] = Caches(store)[f][k]
          /\ Runs(store')[f][k] = Runs(store)[f][k]]_vars

\* two keys with entries, one of them served from the cache by the last call
C9_Witness ==
  /\ Cardinality(DOMAIN store.rid) = 2
  /\ ret.fn = "rid" /\ ret.hit /\ ret.status = "ok"
  /\ ncalls = 3

(***************************************************************************)
(* Claims about the aggregate.                                             *)
(***************************************************************************)
\* the device table the cache holds for the arguments of the behaviour
CachedTable == store.rid[KeyOf(cfg)]

\* the local devices of the observing process
LocalDevices == mesh_local_devices(cfg)

\* the four conditions of C4 on the buffers handed to the constructor
BuffersMatch ==
  /\ Len(args) = Len(LocalDevices)
  /\ \A i \in DOMAIN args : i \in DOMAIN LocalDevices
                              => args[i].device = LocalDevices[i]
  /\ \A i \in DOMAIN args :
       args[i].shape = get_shard_shape(cfg.shape, cfg.mesh, cfg.axes)
  /\ \A i, j \in DOMAIN args : args[i].dtype = args[j].dtype

ValidationErrors == {"ValueError", "AssertionError"}

\* C4 as stated: with checks enabled the constructor succeeds exactly when
\* the buffers match the local devices in number and position, have the
\* shard shape and share one dtype; otherwise it fails with a validation
\* error and yields no aggregate; on success the dtype of the aggregate is
\* the common dtype.
C4_SucceedsIffBuffersMatch ==
  outcome.op = "construct" =>
    /\ outcome.status = "ok" <=> BuffersMatch
    /\ outcome.status # "ok" =>
         outcome.status \in ValidationErrors /\ gda = <<>>
    /\ outcome.status = "ok" =>
         \A i \in DOMAIN args : gda[1].dtype = args[i].dtype

\* C4 amended: the constructor succeeds exactly when there is at least one
\* buffer and the four conditions hold; when a condition fails it fails with
\* a validation error, when the conditions hold for an empty list of buffers
\* it fails with the IndexError of device_buffers[0]; a failure yields no
\* aggregate; on success the dtype of the aggregate is the common dtype.
C4_SucceedsIffNonEmptyAndMatch ==
  outcome.op = "construct" =>
    /\ outcome.status = "ok" <=> (Len(args) >= 1 /\ BuffersMatch)
    /\ ~BuffersMatch => outcome.status \in ValidationErrors
    /\ (BuffersMatch /\ Len(args) = 0) => outcome.status = "IndexError"
    /\ outcome.status # "ok" => gda = <<>>
    /\ outcome.status = "ok" =>
         /\ gda[1].device_buffers = args
         /\ \A i \in DOMAIN args : gda[1].dtype = args[i].dtype

\* a successful construction from two buffers in a process that does not own
\* the first device of the mesh
C4_Witness ==
  /\ outcome.op = "construct" /\ outcome.status = "ok"
  /\ Len(args) = 2
  /\ cfg.proc[1] # process_index
  /\ gda[1].dtype = "float32"

\* the device table in use by the aggregate
TableInUse ==
  IF gda[1].fast_path # <<>>
  THEN gda[1].fast_path[1].global_indices_replica_ids
  ELSE CachedTable

\* C5: whenever an access of LocalShards returns, the view has one Shard per
\* buffer supplied at construction, and the i-th Shard carries input buffer
\* i itself, the device of that buffer, and the Index and replica id the
\* device table in use gives that device.
C5_LocalShardsFollowBuffers ==
  (view.op = "local_shards" /\ view.status = "ok") =>
    /\ Len(view.val) = Len(args)
    /\ \A i \in DOMAIN view.val :
         /\ view.val[i].data = <<args[i]>>
         /\ view.val[i].device = args[i].device
         /\ view.val[i].index = TableInUse[args[i].device].index
         /\ view.val[i].replica_id = TableInUse[args[i].device].replica_id

\* LocalShards of an aggregate built by the constructor, without a fast-path
\* table, in a process whose devices are the second and the fourth of a mesh
\* on which every device has its own Index
C5_Witness ==
  /\ view.op = "local_shards" /\ view.status = "ok"
  /\ outcome.op = "construct"
  /\ Len(view.val) = 2
  /\ view.val[1].device = 2 /\ view.val[2].device = 4
  /\ view.val[1].index # CachedTable[1].index
  /\ view.val[1].index # view.val[2].index

\* C6: in the multi-process case, whenever an access of GlobalShards
\* returns, the view has one Shard per device of the mesh in the order of
\* the cached device table, with the Index and replica id of that table, and
\* the Shard of a device carries a buffer exactly when the device belongs to
\* the observing process: the supplied buffer that resides on the device.
C6_GlobalShardsPerDevice ==
  (/\ view.op = "global_shards" /\ view.status = "ok"
   /\ NumDevices(cfg.mesh) # Len(LocalDevices)) =>
    /\ Len(view.val) = NumDevices(cfg.mesh)
    /\ \A p \in DOMAIN view.val :
         /\ view.val[p].device = CachedTable[p].device
         /\ view.val[p].index = CachedTable[p].index
         /\ view.val[p].replica_id = CachedTable[p].replica_id
         /\ view.val[p].data # <<>> <=> cfg.proc[p] = process_index
         /\ view.val[p].data # <<>> =>
              \E i \in DOMAIN args : /\ args[i].device = p
                                     /\ view.val[p].data = <<args[i]>>

\* GlobalShards of an aggregate that has buffers on two of the four devices
\* of the mesh
C6_Witness ==
  /\ view.op = "global_shards" /\ view.status = "ok"
  /\ Len(view.val) = 4
  /\ Cardinality({p \in DOMAIN view.val : view.val[p].data # <<>>}) = 2
  /\ view.val[1].data = <<>>

\* C7: whenever from_callback has obtained the device table, it has called f
\* once per local device, in the order of the local devices, with the Index
\* the table gives the device; and when the construction succeeds,
\* local_data(i) is, for every position i of the local devices, the value f
\* returned for the Index of local device i, placed on local device i.
C7_FromCallbackRoundTrip ==
  (outcome.op = "from_callback" /\ outcome.init) =>
    /\ calls = [i \in DOMAIN LocalDevices |->
                  CachedTable[LocalDevices[i]].index]
    /\ outcome.status = "ok" =>
         \A i \in DOMAIN LocalDevices :
           LET b == local_data(gda[1], i - 1)
               index == CachedTable[LocalDevices[i]].index
               value == CallbackValue(outcome.f, cfg, index)
           IN /\ b.status = "ok"
              /\ b.val[1].device = LocalDevices[i]
              /\ b.val[1].data = [f |-> outcome.f, of |-> index]
              /\ b.val[1].shape = value.shape
              /\ b.val[1].dtype = value.dtype

\* an aggregate built by from_callback in a process whose devices are the
\* second and the third of a mesh on which every device has its own Index
C7_Witness ==
  /\ outcome.op = "from_callback" /\ outcome.status = "ok"
  /\ LocalDevices = <<2, 3>>
  /\ Len(calls) = 2
  /\ calls[1] # calls[2]
  /\ calls[1] # CachedTable[1].index
  /\ local_data(gda[1], 1).val[1].device = 3

\* C8 as stated: when from_batched_callback_with_devices has obtained the
\* device table and the process has a local device, the construction with
\* the callback of the documented example succeeds, the i-th buffer of the
\* aggregate resides on the i-th local device and the i-th local Shard has
\* the Index the table gives that device.
C8_DocumentedCallbackSucceeds ==
  (/\ outcome.op = "from_batched_callback_with_devices"
   /\ outcome.init
   /\ Len(LocalDevices) >= 1) =>
    /\ outcome.status = "ok"
    /\ Len(gda[1].device_buffers) = Len(LocalDevices)
    /\ \A i \in DOMAIN LocalDevices :
         /\ gda[1].device_buffers[i].device = LocalDevices[i]
         /\ (view.op = "local_shards" /\ view.status = "ok") =>
              view.val[i].index = CachedTable[LocalDevices[i]].index

\* C10 as stated: on one aggregate, whatever the sequence of accesses, the
\* Shard list of LocalShards and the Shard list of GlobalShards are each
\* built at most once.
C10_ViewsBuiltAtMostOnce ==
  builds.local <= 1 /\ builds.global <= 1

C12_BoundsErrorOutsideRange ==
  probe.op = "local_data" =>
    /\ (0 <= probe.index /\ probe.index < Len(args)) =>
         probe.status = "ok" /\ probe.val = <<args[probe.index + 1]>>
    /\ (probe.index < 0 \/ probe.index >= Len(args)) =>
         probe.status = "IndexError"
    /\ gda[1].device_buffers = args

\* what local_data(p) is to return on n buffers
ExpectedLocalData ==
  LET n == Len(args)
      p == probe.index
  IN IF 0 <= p /\ p < n THEN [status |-> "ok", val |-> <<args[p + 1]>>]
     ELSE IF -n <= p /\ p < 0 THEN [status |-> "ok", val |-> <<args[n + p + 1]>>]
     ELSE [status |-> "IndexError", val |-> <<>>]

\* C12 amended: local_data(p) on an aggregate with n buffers returns the
\* buffer supplied at position p when 0 <= p < n, the buffer supplied at
\* position n + p when -n <= p < 0, and fails with a bounds error when
\* p >= n or p < -n; no read changes the aggregate.
C12_PythonIndexing ==
  /\ [](probe.op = "local_data" =>
          /\ probe.status = ExpectedLocalData.status
          /\ probe.val = ExpectedLocalData.val
          /\ gda[1].device_buffers = args)
  /\ [][probe' # probe => (gda' = gda /\ args' = args /\ store' = store
                           /\ shards_memo' = shards_memo)]_vars

\* the read of position -1 on an aggregate of two buffers returns the second
C12_Witness ==
  /\ probe.op = "local_data" /\ probe.index = -1 /\ probe.status = "ok"
  /\ Len(args) = 2
  /\ probe.val = <<args[2]>>

\* the ways of building an aggregate that C13 is about
Ingested ==
  outcome.op \in {"from_callback", "from_batched_callback",
                  "from_batched_callback_with_devices", "result_handler"}

\* the Shards of a view that carry a buffer
WithBuffer(shards) == {shards[p] : p \in {q \in DOMAIN shards : shards[q].data # <<>>}}

\* C13: on an aggregate built by an ingestion strategy or by the result
\* handler, once both views have been returned, the Shards of GlobalShards
\* that carry a buffer are exactly the Shards of LocalShards (same device,
\* Index, replica id and buffer), every local device has exactly one Shard
\* in GlobalShards, and in the single-process case GlobalShards is
\* LocalShards.
C13_ViewsAgree ==
  (Ingested /\ seen.local # <<>> /\ seen.global # <<>>) =>
    LET L == seen.local[1]
        G == seen.global[1]
    IN /\ WithBuffer(G) = {L[i] : i \in DOMAIN L}
       /\ Cardinality({p \in DOMAIN G : G[p].data # <<>>}) = Len(L)
       /\ \A i \in DOMAIN LocalDevices :
            Cardinality({p \in DOMAIN G : G[p].device = LocalDevices[i]}) = 1
       /\ NumDevices(cfg.mesh) = Len(LocalDevices) => G = L

\* both views of an aggregate from_batched_callback built in a process that
\* owns the second and the third of four devices, each with its own Index
C13_Witness ==
  /\ outcome.op = "from_batched_callback"
  /\ seen.local # <<>> /\ seen.global # <<>>
  /\ LocalDevices = <<2, 3>>
  /\ Len(seen.global[1]) = 4
  /\ seen.global[1][2].data = <<args[1]>>
  /\ seen.global[1][3].data = <<args[2]>>
  /\ seen.local[1][1].index # seen.local[1][2].index

====
